---- MODULE Spec2Model ----
(***************************************************************************)
(* KnowledgeGraphRAG (LinkLogic): the triple store, similarity retrieval   *)
(* and k-hop subgraph expansion of app_using_llama.py / app_using_KG.py.   *)
(*                                                                         *)
(* Strings are compared as Python compares them (by code point); the model *)
(* orders the finitely many strings it uses with StrOrder.  A text is the  *)
(* sequence of its space-separated pieces, "" standing for the empty piece *)
(* that a doubled space produces.  Similarity scores are fixed-point       *)
(* numbers in units of 1/ScoreScale.  add_triple and expand_subgraph are    *)
(* the same in both files; retrieve_relevant_subgraph and demonstrate_rag  *)
(* are those of app_using_llama.py, which returns the best score and       *)
(* triple besides the ranked list.                                         *)
(***************************************************************************)
EXTENDS Integers, Sequences, FiniteSets, TLC

VARIABLES knowledge_graph, node_embeddings, edge_embeddings, triple_to_edge,
          adds, last

vars == <<knowledge_graph, node_embeddings, edge_embeddings, triple_to_edge,
          adds, last>>

----------------------------------------------------------------------------
(* Bounds and input sets *)

MaxAdds == 2
MaxTopK == 2
MaxHops == 2
MaxCap == 2
MaxSeeds == 2
MaxTriples == 3

Triple(head, relation, tail) == [head |-> head, relation |-> relation, tail |-> tail]

(* the sample data: the triples the callers add (demonstrate_rag reads them
   from a file whose content is not fixed by the code) *)
SampleTriples == << Triple("A", "r1", "B"), Triple("A", "r2", "B"),
                    Triple("A", "r2", "C"), Triple("A", "r1", "D"),
                    Triple("B", "r2", "C"), Triple("B", "r1", "D"),
                    Triple("C", "r1", "D"), Triple("C", "r2", "B") >>

(* seed triples handed to expand_subgraph: stored ones and ones never added *)
SeedTriples == { Triple("A", "r1", "B"), Triple("B", "r2", "C") }

(* Python's None for max_score_triple *)
None == Triple("None", "None", "None")

Queries == { <<"A", "r1", "B">>, <<"c", "", "R2">> }

----------------------------------------------------------------------------
(* Strings: order and case *)

StrOrder == <<"", "A", "B", "C", "D", "None", "R1", "R2", "a", "b", "c", "d", "r1", "r2">>

RankOf == [s \in {StrOrder[i] : i \in 1..Len(StrOrder)} |->
              CHOOSE i \in 1..Len(StrOrder) : StrOrder[i] = s]

Rank(s) == RankOf[s]

Lower(s) ==
    CASE s = "A" -> "a"
      [] s = "B" -> "b"
      [] s = "C" -> "c"
      [] s = "D" -> "d"
      [] s = "R1" -> "r1"
      [] s = "R2" -> "r2"
      [] OTHER -> s

(* tuple comparison of Python: lexicographic, a proper prefix is smaller *)
RECURSIVE LexLess(_, _)
LexLess(a, b) ==
    IF a = <<>> THEN b # <<>>
    ELSE IF b = <<>> THEN FALSE
    ELSE IF Head(a) # Head(b) THEN Head(a) < Head(b)
    ELSE LexLess(Tail(a), Tail(b))

(* sorted(list, key=Key): stable insertion sort of <<key, item>> entries *)
RECURSIVE InsertSorted(_, _)
InsertSorted(x, s) ==
    IF s = <<>> THEN <<x>>
    ELSE IF LexLess(x[1], Head(s)[1]) THEN <<x>> \o s
    ELSE <<Head(s)>> \o InsertSorted(x, Tail(s))

RECURSIVE SortEntries(_)
SortEntries(s) ==
    IF s = <<>> THEN <<>>
    ELSE InsertSorted(s[Len(s)], SortEntries(SubSeq(s, 1, Len(s) - 1)))

(* the items of sorted entries *)
Items(entries) == [i \in 1..Len(entries) |-> entries[i][2]]

RECURSIVE SetToSeq(_)
SetToSeq(S) ==
    IF S = {} THEN <<>>
    ELSE LET x == CHOOSE y \in S : TRUE IN <<x>> \o SetToSeq(S \ {x})

Range(s) == {s[i] : i \in 1..Len(s)}

StrKey(s) == <<Rank(s)>>
PairKey(p) == <<Rank(p[1]), Rank(p[2])>>
TripleKey(t) == <<Rank(t.head), Rank(t.relation), Rank(t.tail)>>

(* sorted(strings), sorted(pairs of strings),
   sorted(triples, key=lambda x: (x.head, x.relation, x.tail)) *)
SortedStrings(s) == Items(SortEntries([i \in 1..Len(s) |-> <<StrKey(s[i]), s[i]>>]))
SortedPairs(s) == Items(SortEntries([i \in 1..Len(s) |-> <<PairKey(s[i]), s[i]>>]))
SortedTriples(s) == Items(SortEntries([i \in 1..Len(s) |-> <<TripleKey(s[i]), s[i]>>]))

----------------------------------------------------------------------------
(* Embedding provider and cosine similarity *)

(* ' '.join(text.lower().split()) *)
NormalizeText(text) ==
    LET lowered == [i \in 1..Len(text) |-> Lower(text[i])]
    IN  SelectSeq(lowered, LAMBDA w : w # "")

WordCode(w) ==
    CASE w = "a" -> 1
      [] w = "b" -> 2
      [] w = "c" -> 3
      [] w = "d" -> 4
      [] w = "r1" -> 5
      [] w = "r2" -> 6
      [] OTHER -> 0

Vectors == << <<5, 0>>, <<4, 3>>, <<3, 4>>, <<0, 5>>, <<-3, 4>>, <<-4, 3>>,
              <<-5, 0>>, <<-4, -3>>, <<-3, -4>>, <<0, -5>>, <<3, -4>>, <<4, -3>> >>

RECURSIVE TextHash(_, _)
TextHash(words, i) ==
    IF i > Len(words) THEN 0
    ELSE i * WordCode(words[i]) + TextHash(words, i + 1)

(* the provider: a deterministic function of the normalized text *)
generate_embeddings(words) == Vectors[(TextHash(words, 1) % Len(Vectors)) + 1]

_compute_embedding(text) == generate_embeddings(NormalizeText(text))

ScoreScale == 25

Dot(a, b) == a[1] * b[1] + a[2] * b[2]

Norm(a) == CHOOSE n \in 0..(Dot(a, a) + 1) : n * n <= Dot(a, a) /\ (n + 1) * (n + 1) > Dot(a, a)

(* dot / (|a| |b|), a zero-norm vector scoring 0 *)
find_cosine_similarity(a, b) ==
    IF Norm(a) = 0 \/ Norm(b) = 0 THEN 0
    ELSE (Dot(a, b) * ScoreScale) \div (Norm(a) * Norm(b))

----------------------------------------------------------------------------
(* The store: KnowledgeGraphRAG.__init__ and add_triple *)

EmptyGraph == [nodes |-> {}, edges |-> <<>>]

Store == [knowledge_graph |-> knowledge_graph,
          node_embeddings |-> node_embeddings,
          edge_embeddings |-> edge_embeddings,
          triple_to_edge |-> triple_to_edge]

EmptyStore == [knowledge_graph |-> EmptyGraph,
               node_embeddings |-> <<>>,
               edge_embeddings |-> <<>>,
               triple_to_edge |-> <<>>]

(* nx.DiGraph.add_edge(head, tail, relation=relation) *)
add_edge(g, head, tail, relation) ==
    [nodes |-> g.nodes \cup {head, tail},
     edges |-> (<<head, tail>> :> relation) @@ g.edges]

has_edge(g, a, b) == <<a, b>> \in DOMAIN g.edges

(* "for node in sorted([head, tail])": an embedding is computed for a node
   that has none.  failAt = k > 0 makes the k-th call of the embedding
   provider raise, failAt = 0 lets every call succeed.  The result is the
   cache as the loop leaves it, the number of provider calls started and
   whether one of them failed. *)
embed_nodes(ne0, order, failAt) ==
    LET miss1 == order[1] \notin DOMAIN ne0
        calls1 == IF miss1 THEN 1 ELSE 0
        fail1 == miss1 /\ failAt = 1
        ne1 == IF miss1 /\ ~fail1
                 THEN (order[1] :> _compute_embedding(<<order[1]>>)) @@ ne0
                 ELSE ne0
        miss2 == ~fail1 /\ order[2] \notin DOMAIN ne1
        calls2 == IF miss2 THEN calls1 + 1 ELSE calls1
        fail2 == miss2 /\ failAt = calls2
        ne2 == IF miss2 /\ ~fail2
                 THEN (order[2] :> _compute_embedding(<<order[2]>>)) @@ ne1
                 ELSE ne1
    IN  [node_embeddings |-> ne2, calls |-> calls2, failed |-> fail1 \/ fail2]

(* add_triple that restores the node cache when the provider fails *)
add_triple_rollback(st, head, relation, tail, failAt) ==
    LET g1 == add_edge(st.knowledge_graph, head, tail, relation)
        en == embed_nodes(st.node_embeddings, SortedStrings(<<head, tail>>), failAt)
        calls3 == IF en.failed THEN en.calls ELSE en.calls + 1
        provider_failed == en.failed \/ failAt = calls3
        edge_key == <<head, tail>>
    IN  [store |-> [knowledge_graph |-> g1,
                    node_embeddings |->
                        IF provider_failed THEN st.node_embeddings
                        ELSE en.node_embeddings,
                    edge_embeddings |->
                        IF provider_failed THEN st.edge_embeddings
                        ELSE (edge_key :> _compute_embedding(<<head, relation, tail>>))
                                 @@ st.edge_embeddings,
                    triple_to_edge |->
                        IF provider_failed THEN st.triple_to_edge
                        ELSE (Triple(head, relation, tail) :> edge_key)
                                 @@ st.triple_to_edge],
         provider_failed |-> provider_failed,
         raised |-> provider_failed,
         calls |-> calls3]

(* add_triple whose overwrite of an edge embedding is not a function of
   the text alone: on re-insertion of a pair the relation enters it twice *)
add_triple_reembed(st, head, relation, tail, failAt) ==
    LET g1 == add_edge(st.knowledge_graph, head, tail, relation)
        en == embed_nodes(st.node_embeddings, SortedStrings(<<head, tail>>), failAt)
        calls3 == IF en.failed THEN en.calls ELSE en.calls + 1
        provider_failed == en.failed \/ failAt = calls3
        edge_key == <<head, tail>>
        text == IF edge_key \in DOMAIN st.edge_embeddings
                  THEN <<head, relation, relation, tail>>
                  ELSE <<head, relation, tail>>
    IN  [store |-> [knowledge_graph |-> g1,
                    node_embeddings |-> en.node_embeddings,
                    edge_embeddings |->
                        IF provider_failed THEN st.edge_embeddings
                        ELSE (edge_key :> _compute_embedding(text))
                                 @@ st.edge_embeddings,
                    triple_to_edge |->
                        IF provider_failed THEN st.triple_to_edge
                        ELSE (Triple(head, relation, tail) :> edge_key)
                                 @@ st.triple_to_edge],
         provider_failed |-> provider_failed,
         raised |-> provider_failed,
         calls |-> calls3]

(* add_triple.  The result carries the store as the call leaves it, whether
   a provider call failed, whether the call raised ValueError, and the
   number of provider calls that were started. *)
add_triple(st, head, relation, tail, failAt) ==
    LET g1 == add_edge(st.knowledge_graph, head, tail, relation)
        en == embed_nodes(st.node_embeddings, SortedStrings(<<head, tail>>), failAt)
        calls3 == IF en.failed THEN en.calls ELSE en.calls + 1
        provider_failed == en.failed \/ failAt = calls3
        (* except Exception as e: raise ValueError(...) *)
        raised == provider_failed
        edge_key == <<head, tail>>
    IN  [store |-> [knowledge_graph |-> g1,
                    node_embeddings |-> en.node_embeddings,
                    edge_embeddings |->
                        IF provider_failed THEN st.edge_embeddings
                        ELSE (edge_key :> _compute_embedding(<<head, relation, tail>>))
                                 @@ st.edge_embeddings,
                    triple_to_edge |->
                        IF provider_failed THEN st.triple_to_edge
                        ELSE (Triple(head, relation, tail) :> edge_key)
                                 @@ st.triple_to_edge],
         provider_failed |-> provider_failed,
         raised |-> raised,
         calls |-> calls3]

----------------------------------------------------------------------------
(* retrieve_relevant_subgraph *)

Min(a, b) == IF a < b THEN a ELSE b
Max(a, b) == IF a > b THEN a ELSE b

(* s[:k] *)
SliceTo(s, k) ==
    IF k >= 0 THEN SubSeq(s, 1, Min(k, Len(s)))
    ELSE SubSeq(s, 1, Max(0, Len(s) + k))

(* scan_edge retaining only the scores strictly above the threshold *)
scan_edge_strict(g, key, score, similarity_threshold, acc) ==
    LET head == key[1]
        tail == key[2]
        relation == g.edges[<<head, tail>>]
        better == score > acc.max_score
        acc1 == [acc EXCEPT
                   !.max_score = IF better THEN score ELSE @,
                   !.max_score_triple =
                       IF better THEN Triple(head, relation, tail) ELSE @]
    IN  IF score > similarity_threshold
          THEN [acc1 EXCEPT !.similarities =
                    Append(@, <<Triple(head, relation, tail), score>>)]
          ELSE acc1

(* the body of the loop over enumerate(edge_keys): acc is
   [max_score, max_score_triple, similarities], similarities being the
   OrderedDict as the sequence of its <<triple, score>> items *)
scan_edge(g, key, score, similarity_threshold, acc) ==
    LET head == key[1]
        tail == key[2]
        relation == g.edges[<<head, tail>>]
        better == score > acc.max_score
        acc1 == [acc EXCEPT
                   !.max_score = IF better THEN score ELSE @,
                   !.max_score_triple =
                       IF better THEN Triple(head, relation, tail) ELSE @]
    IN  IF score >= similarity_threshold
          THEN [acc1 EXCEPT !.similarities =
                    Append(@, <<Triple(head, relation, tail), score>>)]
          ELSE acc1

RECURSIVE ScanEdges(_, _, _, _, _, _)
ScanEdges(g, edge_keys, similarity_scores, similarity_threshold, idx, acc) ==
    IF idx > Len(edge_keys) THEN acc
    ELSE ScanEdges(g, edge_keys, similarity_scores, similarity_threshold, idx + 1,
                   scan_edge(g, edge_keys[idx], similarity_scores[idx],
                             similarity_threshold, acc))

(* the sort key without the alphabetical tie-break *)
RankKey_score_only(x) == <<-x[2]>>

RankKey(x) == <<-x[2], Rank(x[1].head), Rank(x[1].relation), Rank(x[1].tail)>>

(* sorted(similarities.items(), key=lambda x: (-x[1], x[0].head, ...)) *)
SortedItems(s) == Items(SortEntries([i \in 1..Len(s) |-> <<RankKey(s[i]), s[i]>>]))

(* The value is the Python value returned: the empty list [] when no edge
   embedding is cached, else the tuple (triples, max_score, max_score_triple).
   providerFails makes the embedding of the query raise. *)
retrieve_relevant_subgraph(st, query, top_k, similarity_threshold, providerFails) ==
    IF DOMAIN st.edge_embeddings = {} THEN [raised |-> FALSE, value |-> <<>>]
    ELSE IF providerFails THEN [raised |-> TRUE, value |-> <<>>]
    ELSE
      LET query_embedding == _compute_embedding(NormalizeText(query))
          edge_keys == SortedPairs(SetToSeq(DOMAIN st.edge_embeddings))
          similarity_scores ==
              [i \in 1..Len(edge_keys) |->
                  find_cosine_similarity(query_embedding,
                                         st.edge_embeddings[edge_keys[i]])]
          acc == ScanEdges(st.knowledge_graph, edge_keys, similarity_scores,
                           similarity_threshold, 1,
                           [max_score |-> -1 * ScoreScale,
                            max_score_triple |-> None,
                            similarities |-> <<>>])
          sorted_triples == SortedItems(acc.similarities)
          top == SliceTo(sorted_triples, top_k)
      IN  [raised |-> FALSE,
           value |-> << [i \in 1..Len(top) |-> top[i][1]],
                        acc.max_score, acc.max_score_triple >>]

----------------------------------------------------------------------------
(* expand_subgraph *)

(* nx.DiGraph.neighbors(node): the successors of node *)
neighbors(g, node) == {e[2] : e \in {d \in DOMAIN g.edges : d[1] = node}}

(* the slice taken one entry too long *)
capped_neighbors_one_more(g, node, max_nodes_per_hop) ==
    SliceTo(SortedStrings(SetToSeq(neighbors(g, node))), max_nodes_per_hop + 1)

(* the slice written [max_nodes_per_hop:], which skips the first entries
   instead of keeping them *)
capped_neighbors_skip(g, node, max_nodes_per_hop) ==
    LET nbrs == SortedStrings(SetToSeq(neighbors(g, node)))
    IN  SubSeq(nbrs, Min(max_nodes_per_hop, Len(nbrs)) + 1, Len(nbrs))

(* sorted(list(neighbors(node)))[:max_nodes_per_hop] *)
capped_neighbors(g, node, max_nodes_per_hop) ==
    SliceTo(SortedStrings(SetToSeq(neighbors(g, node))), max_nodes_per_hop)

(* visit_neighbor that builds the outgoing triple from the neighbor to the
   node *)
visit_neighbor_reversed(g, acc, node, neighbor) ==
    IF neighbor \in acc.seen_nodes THEN acc
    ELSE
      LET out == IF has_edge(g, node, neighbor)
                   THEN {Triple(neighbor, g.edges[<<node, neighbor>>], node)}
                   ELSE {}
          inc == IF has_edge(g, neighbor, node)
                   THEN {Triple(neighbor, g.edges[<<neighbor, node>>], node)}
                   ELSE {}
      IN  [acc EXCEPT !.new_triples = @ \cup out \cup inc,
                      !.seen_nodes = @ \cup {neighbor}]

(* visit_neighbor that does not mark the neighbor as seen *)
visit_neighbor_unmarked(g, acc, node, neighbor) ==
    IF neighbor \in acc.seen_nodes THEN acc
    ELSE
      LET out == IF has_edge(g, node, neighbor)
                   THEN {Triple(node, g.edges[<<node, neighbor>>], neighbor)}
                   ELSE {}
          inc == IF has_edge(g, neighbor, node)
                   THEN {Triple(neighbor, g.edges[<<neighbor, node>>], node)}
                   ELSE {}
      IN  [acc EXCEPT !.new_triples = @ \cup out \cup inc]

(* the body of "for neighbor in neighbors"; acc is [new_triples, seen_nodes,
   raised] *)
visit_neighbor(g, acc, node, neighbor) ==
    IF neighbor \in acc.seen_nodes THEN acc
    ELSE
      LET out == IF has_edge(g, node, neighbor)
                   THEN {Triple(node, g.edges[<<node, neighbor>>], neighbor)}
                   ELSE {}
          inc == IF has_edge(g, neighbor, node)
                   THEN {Triple(neighbor, g.edges[<<neighbor, node>>], node)}
                   ELSE {}
      IN  [acc EXCEPT !.new_triples = @ \cup out \cup inc,
                      !.seen_nodes = @ \cup {neighbor}]

RECURSIVE visit_neighbors(_, _, _, _, _)
visit_neighbors(g, acc, node, nbrs, i) ==
    IF i > Len(nbrs) THEN acc
    ELSE visit_neighbors(g, visit_neighbor(g, acc, node, nbrs[i]), node, nbrs, i + 1)

(* the body of "for node in sorted([triple.head, triple.tail])";
   neighbors() raises NetworkXError for a node that is not in the graph *)
visit_node(g, acc, node, max_nodes_per_hop) ==
    IF acc.raised THEN acc
    ELSE IF node \notin g.nodes THEN [acc EXCEPT !.raised = TRUE]
    ELSE visit_neighbors(g, acc, node,
                         capped_neighbors(g, node, max_nodes_per_hop), 1)

RECURSIVE visit_triples(_, _, _, _, _)
visit_triples(g, acc, snapshot, i, max_nodes_per_hop) ==
    IF i > Len(snapshot) THEN acc
    ELSE
      LET nodes == SortedStrings(<<snapshot[i].head, snapshot[i].tail>>)
          a1 == visit_node(g, acc, nodes[1], max_nodes_per_hop)
          a2 == visit_node(g, a1, nodes[2], max_nodes_per_hop)
      IN  visit_triples(g, a2, snapshot, i + 1, max_nodes_per_hop)

(* one round of discovery over the sorted snapshot of the working set; w is
   [expanded_triples, seen_nodes, raised] *)
discover(g, w, max_nodes_per_hop) ==
    visit_triples(g, [new_triples |-> {},
                      seen_nodes |-> w.seen_nodes,
                      raised |-> FALSE],
                  SortedTriples(SetToSeq(w.expanded_triples)), 1,
                  max_nodes_per_hop)

(* expanded_triples.update(new_triples) *)
merge(w, acc) ==
    [expanded_triples |-> w.expanded_triples \cup acc.new_triples,
     seen_nodes |-> acc.seen_nodes,
     raised |-> acc.raised]

(* a hop that merges what it discovers at once and goes on exploring from it *)
expand_hop_cascading(g, w, max_nodes_per_hop) ==
    IF w.raised THEN w
    ELSE LET w1 == merge(w, discover(g, w, max_nodes_per_hop))
         IN  IF w1.raised THEN w1
             ELSE merge(w1, discover(g, w1, max_nodes_per_hop))

(* one iteration of "for _ in range(hops)" *)
expand_hop(g, w, max_nodes_per_hop) ==
    IF w.raised THEN w
    ELSE merge(w, discover(g, w, max_nodes_per_hop))

RECURSIVE expand_hops(_, _, _, _)
expand_hops(g, w, hops, max_nodes_per_hop) ==
    IF hops <= 0 THEN w
    ELSE expand_hops(g, expand_hop(g, w, max_nodes_per_hop), hops - 1,
                     max_nodes_per_hop)

Endpoints(T) == {t.head : t \in T} \cup {t.tail : t \in T}

(* the working state after the given number of hops *)
expand_state(g, triples, hops, max_nodes_per_hop) ==
    expand_hops(g, [expanded_triples |-> Range(triples),
                    seen_nodes |-> Endpoints(Range(triples)),
                    raised |-> FALSE],
                hops, max_nodes_per_hop)

expand_subgraph(g, triples, hops, max_nodes_per_hop) ==
    LET w == expand_state(g, triples, hops, max_nodes_per_hop)
    IN  IF w.raised THEN [raised |-> TRUE, value |-> <<>>]
        ELSE [raised |-> FALSE,
              value |-> SortedTriples(SetToSeq(w.expanded_triples))]

----------------------------------------------------------------------------
(* generate_context *)

(* sep.join(parts) *)
RECURSIVE Join(_, _)
Join(sep, parts) ==
    IF parts = <<>> THEN ""
    ELSE IF Len(parts) = 1 THEN parts[1]
    ELSE parts[1] \o sep \o Join(sep, Tail(parts))

(* " ".join(f"{triple.head} {triple.relation} {triple.tail}." ...) *)
natural_context(sorted_triples) ==
    Join(" ", [i \in 1..Len(sorted_triples) |->
                  sorted_triples[i].head \o " " \o sorted_triples[i].relation
                      \o " " \o sorted_triples[i].tail \o "."])

(* subject_groups[subject]: the (relation, tail) pairs appended for the
   triples of that head, in the order of sorted_triples *)
subject_group(sorted_triples, subject) ==
    LET own == SelectSeq(sorted_triples, LAMBDA t : t.head = subject)
    IN  [i \in 1..Len(own) |-> <<own[i].relation, own[i].tail>>]

(* f"{subject} -> {predicate_str}" *)
context_part(sorted_triples, subject) ==
    LET predicates == SortedPairs(subject_group(sorted_triples, subject))
        predicate_str == Join("; ", [i \in 1..Len(predicates) |->
                                        predicates[i][1] \o " " \o predicates[i][2]])
    IN  subject \o " -> " \o predicate_str

(* one line for every triple instead of one for every head *)
structured_context_ungrouped(sorted_triples) ==
    Join("\n", [i \in 1..Len(sorted_triples) |->
                   context_part(<<sorted_triples[i]>>, sorted_triples[i].head)])

(* "\n".join(context_parts) over sorted(subject_groups.keys()) *)
structured_context(sorted_triples) ==
    LET subjects == SortedStrings(SetToSeq({t.head : t \in Range(sorted_triples)}))
    IN  Join("\n", [i \in 1..Len(subjects) |->
                       context_part(sorted_triples, subjects[i])])

(* what is raised: ValueError(f"Unsupported format type: {format_type}"),
   kept as the exception type and the value the message is formatted from *)
NoError == [type |-> "", format_type |-> ""]

(* generate_context without the initial sort *)
generate_context_unsorted(triples, format_type) ==
    IF format_type = "natural"
      THEN [raised |-> FALSE, value |-> natural_context(triples), error |-> NoError]
    ELSE IF format_type = "structured"
      THEN [raised |-> FALSE, value |-> structured_context(triples), error |-> NoError]
    ELSE [raised |-> TRUE, value |-> "",
          error |-> [type |-> "ValueError", format_type |-> format_type]]

(* generate_context in which a format type that is not 'structured' is
   taken to be the default one *)
generate_context_default_natural(triples, format_type) ==
    LET sorted_triples == SortedTriples(triples)
    IN  IF format_type = "structured"
          THEN [raised |-> FALSE, value |-> structured_context(sorted_triples),
                error |-> NoError]
        ELSE [raised |-> FALSE, value |-> natural_context(sorted_triples),
              error |-> NoError]

generate_context(triples, format_type) ==
    LET sorted_triples == SortedTriples(triples)
    IN  IF format_type = "natural"
          THEN [raised |-> FALSE, value |-> natural_context(sorted_triples),
                error |-> NoError]
        ELSE IF format_type = "structured"
          THEN [raised |-> FALSE, value |-> structured_context(sorted_triples),
                error |-> NoError]
        ELSE [raised |-> TRUE, value |-> "",
              error |-> [type |-> "ValueError", format_type |-> format_type]]

----------------------------------------------------------------------------
(* demonstrate_rag, from the retrieval on *)

DefaultTopK == 5
DefaultThreshold == (50 * ScoreScale) \div 100
DemoTopK == 3
DemoHops == 1
DefaultMaxNodesPerHop == 10
DemoThreshold == (60 * ScoreScale) \div 100

(* relevant_triples, max_score, max_score_triple = retrieve_relevant_subgraph(...):
   unpacking raises ValueError unless the value has exactly three parts; any
   exception makes demonstrate_rag return None *)
demonstrate_rag(st, query, providerFails) ==
    LET ret == retrieve_relevant_subgraph(st, query, DemoTopK, DemoThreshold,
                                          providerFails)
        failed == [returned |-> "None", expanded_triples |-> <<>>,
                   natural_context |-> "", structured_context |-> ""]
    IN  IF ret.raised \/ Len(ret.value) # 3 THEN failed
        ELSE IF Len(ret.value[1]) > 0
          THEN LET ex == expand_subgraph(st.knowledge_graph, ret.value[1],
                                         DemoHops, DefaultMaxNodesPerHop)
                   (* expanded_triples.sort(key=...) *)
                   expanded_triples == SortedTriples(ex.value)
               IN  IF ex.raised THEN failed
                   ELSE [returned |-> "contexts",
                         expanded_triples |-> expanded_triples,
                         natural_context |->
                             generate_context(expanded_triples, "natural").value,
                         structured_context |->
                             generate_context(expanded_triples, "structured").value]
        ELSE [returned |-> "contexts", expanded_triples |-> <<>>,
              natural_context |-> "", structured_context |-> ""]

----------------------------------------------------------------------------
(* Specification of the store and of retrieval *)

Thresholds == {-1 * ScoreScale, 0, DemoThreshold, ScoreScale + 1}

Init ==
    /\ knowledge_graph = EmptyGraph
    /\ node_embeddings = <<>>
    /\ edge_embeddings = <<>>
    /\ triple_to_edge = <<>>
    /\ adds = 0
    /\ last = [op |-> "init"]

(* The caller's position, as in demonstrate_rag: it adds the triples, then
   makes its query and returns. *)
Loading == last.op \in {"init", "add"}

AddTriple ==
    /\ Loading
    /\ adds < MaxAdds
    /\ \E i \in 1..Len(SampleTriples), failAt \in 0..3 :
         LET t == SampleTriples[i]
             r == add_triple(Store, t.head, t.relation, t.tail, failAt)
         IN  /\ failAt = 0 \/ r.raised
             /\ knowledge_graph' = r.store.knowledge_graph
             /\ node_embeddings' = r.store.node_embeddings
             /\ edge_embeddings' = r.store.edge_embeddings
             /\ triple_to_edge' = r.store.triple_to_edge
             /\ adds' = adds + 1
             /\ last' = [op |-> "add", triple |-> t,
                         provider_failed |-> r.provider_failed,
                         raised |-> r.raised, calls |-> r.calls]

Retrieve ==
    /\ Loading
    /\ \E query \in Queries, top_k \in 0..MaxTopK,
          similarity_threshold \in Thresholds :
         LET r == retrieve_relevant_subgraph(Store, query, top_k,
                                             similarity_threshold, FALSE)
         IN  last' = [op |-> "retrieve", query |-> query, top_k |-> top_k,
                      similarity_threshold |-> similarity_threshold,
                      raised |-> r.raised, value |-> r.value]
    /\ UNCHANGED <<knowledge_graph, node_embeddings, edge_embeddings,
                   triple_to_edge, adds>>

(* the provider raises on the query text; the call is made with the default
   top_k and similarity_threshold of the signature *)
RetrieveProviderError ==
    /\ Loading
    /\ \E query \in Queries :
         LET r == retrieve_relevant_subgraph(Store, query, DefaultTopK,
                                             DefaultThreshold, TRUE)
         IN  /\ r.raised
             /\ last' = [op |-> "retrieve", query |-> query, top_k |-> DefaultTopK,
                         similarity_threshold |-> DefaultThreshold,
                         raised |-> r.raised, value |-> r.value]
    /\ UNCHANGED <<knowledge_graph, node_embeddings, edge_embeddings,
                   triple_to_edge, adds>>

Demonstrate ==
    /\ Loading
    /\ \E query \in Queries, providerFails \in BOOLEAN :
         LET r == demonstrate_rag(Store, query, providerFails)
         IN  /\ providerFails => DOMAIN edge_embeddings # {}
             /\ last' = [op |-> "demonstrate", query |-> query,
                         returned |-> r.returned,
                         expanded_triples |-> r.expanded_triples,
                         natural_context |-> r.natural_context,
                         structured_context |-> r.structured_context]
    /\ UNCHANGED <<knowledge_graph, node_embeddings, edge_embeddings,
                   triple_to_edge, adds>>

Next == AddTriple \/ Retrieve \/ RetrieveProviderError \/ Demonstrate

Spec == Init /\ [][Next]_vars

----------------------------------------------------------------------------
(* Specification of expansion: the store holds some of the sample triples,
   added in order without a provider failure, and expand_subgraph is called
   on it *)

RECURSIVE AddAll(_, _, _)
AddAll(st, triples, keep) ==
    IF triples = <<>> THEN st
    ELSE LET t == Head(triples)
             st1 == IF Head(keep)
                      THEN add_triple(st, t.head, t.relation, t.tail, 0).store
                      ELSE st
         IN  AddAll(st1, Tail(triples), Tail(keep))

SeedLists == UNION {[1..n -> SeedTriples] : n \in 0..MaxSeeds}

InitExpand ==
    /\ \E keep \in [1..Len(SampleTriples) -> BOOLEAN] :
         LET st == AddAll(EmptyStore, SampleTriples, keep)
         IN  /\ knowledge_graph = st.knowledge_graph
             /\ node_embeddings = st.node_embeddings
             /\ edge_embeddings = st.edge_embeddings
             /\ triple_to_edge = st.triple_to_edge
             /\ adds = Cardinality({i \in DOMAIN keep : keep[i]})
    /\ last = [op |-> "init"]

Expand ==
    /\ last.op = "init"
    /\ \E triples \in SeedLists, hops \in 0..MaxHops,
          max_nodes_per_hop \in 0..MaxCap :
         LET r == expand_subgraph(knowledge_graph, triples, hops, max_nodes_per_hop)
         IN  last' = [op |-> "expand", triples |-> triples, hops |-> hops,
                      max_nodes_per_hop |-> max_nodes_per_hop,
                      raised |-> r.raised, value |-> r.value]
    /\ UNCHANGED <<knowledge_graph, node_embeddings, edge_embeddings,
                   triple_to_edge, adds>>

NextExpand == Expand

SpecExpand == InitExpand /\ [][NextExpand]_vars

----------------------------------------------------------------------------
(* Specification of formatting: generate_context is called with a list of
   triples and a format type; it reads nothing of the store *)

FormatTriples == { Triple("A", "r1", "B"), Triple("A", "r2", "C"),
                   Triple("A", "r1", "C"), Triple("B", "r1", "D"),
                   Triple("a", "r1", "B") }

FormatLists == UNION {[1..n -> FormatTriples] : n \in 0..MaxTriples}

FormatTypes == {"natural", "structured", "Natural", "json"}

GenerateContext ==
    /\ last.op = "init"
    /\ \E triples \in FormatLists, format_type \in FormatTypes :
         LET r == generate_context(triples, format_type)
         IN  last' = [op |-> "format", triples |-> triples,
                      format_type |-> format_type, raised |-> r.raised,
                      value |-> r.value, error |-> r.error]
    /\ UNCHANGED <<knowledge_graph, node_embeddings, edge_embeddings,
                   triple_to_edge, adds>>

NextFormat == GenerateContext

SpecFormat == Init /\ [][NextFormat]_vars

----------------------------------------------------------------------------
(* Properties of the store *)

StoredTriples(g) == {Triple(e[1], g.edges[e], e[2]) : e \in DOMAIN g.edges}

(* the step is a call add_triple(t.head, t.relation, t.tail) that returned *)
AddReturned(t) ==
    /\ adds' = adds + 1
    /\ last'.op = "add" /\ ~last'.raised
    /\ knowledge_graph' = add_edge(knowledge_graph, t.head, t.tail, t.relation)

(* the triples retrieve_relevant_subgraph can put in a result on store st *)
Retrievable(st) ==
    UNION { LET v == retrieve_relevant_subgraph(st, q, Len(SampleTriples), th, FALSE).value
            IN  IF Len(v) = 3 THEN Range(v[1]) \cup {v[3]} ELSE {}
            : q \in Queries, th \in Thresholds }

(* the triples expand_subgraph can add to seed lists on graph g *)
Expandable(g) ==
    UNION { LET r == expand_subgraph(g, seeds, MaxHops, MaxCap)
            IN  IF r.raised THEN {} ELSE Range(r.value) \ Range(seeds)
            : seeds \in SeedLists }

(* C1: after add(A, r1, B), a returning add(A, r2, B) with r2 # r1 leaves r2
   as the relation of (A, B), and (A, r1, B) is held by no part of the store
   (graph, edge embedding cache, triple-to-edge index) and cannot be added to
   a result by retrieve or expand. *)
C1_OverwriteForgets ==
    [][\A t \in Range(SampleTriples) :
         LET e == <<t.head, t.tail>>
         IN  (/\ e \in DOMAIN knowledge_graph.edges
              /\ knowledge_graph.edges[e] # t.relation
              /\ AddReturned(t))
             => LET old == Triple(t.head, knowledge_graph.edges[e], t.tail)
                IN  /\ knowledge_graph'.edges[e] = t.relation
                    /\ old \notin StoredTriples(knowledge_graph')
                    /\ edge_embeddings'[e] =
                           _compute_embedding(<<t.head, t.relation, t.tail>>)
                    /\ old \notin DOMAIN triple_to_edge'
                    /\ old \notin Retrievable(Store')
                    /\ old \notin Expandable(knowledge_graph')]_vars

(* C2: every node of the graph has a cached node embedding and every edge of
   the graph has a cached edge embedding, whether the adds returned or
   raised. *)
C2_EveryNodeAndEdgeEmbedded ==
    /\ knowledge_graph.nodes \subseteq DOMAIN node_embeddings
    /\ DOMAIN knowledge_graph.edges \subseteq DOMAIN edge_embeddings

(* C3: an add in which the provider fails raises; the embeddings cached
   before the call are unchanged, and each of the calls - 1 embeddings
   computed before the failing call is in the node cache afterwards. *)
C3_FailedAddKeepsComputed ==
    [][(adds' = adds + 1 /\ last'.op = "add" /\ last'.provider_failed)
         => /\ last'.raised
            /\ \A n \in DOMAIN node_embeddings :
                 n \in DOMAIN node_embeddings'
                 /\ node_embeddings'[n] = node_embeddings[n]
            /\ edge_embeddings' = edge_embeddings
            /\ Cardinality(DOMAIN node_embeddings' \ DOMAIN node_embeddings)
                   = last'.calls - 1
            /\ \A n \in DOMAIN node_embeddings' \ DOMAIN node_embeddings :
                 node_embeddings'[n] = _compute_embedding(<<n>>)]_vars

(* a failed add whose first provider call had succeeded: the embedding it
   computed is cached although the edge has none *)
C3_Witness ==
    /\ last.op = "add" /\ last.provider_failed /\ last.raised
    /\ last.calls >= 2
    /\ \E e \in DOMAIN knowledge_graph.edges :
         /\ e \notin DOMAIN edge_embeddings
         /\ {e[1], e[2]} \cap DOMAIN node_embeddings # {}

(* C12: a returning add(h, r, t) made right after a returning add(h, r, t)
   with the same arguments leaves the store as the first call left it: the
   graph's nodes, edges and relation labels, the node embedding cache, the
   edge embedding cache and the triple-to-edge index. *)
C12_IdempotentReAdd ==
    [][(/\ last.op = "add" /\ ~last.raised
        /\ adds' = adds + 1
        /\ last'.op = "add" /\ ~last'.raised
        /\ last'.triple = last.triple)
       => /\ knowledge_graph' = knowledge_graph
          /\ node_embeddings' = node_embeddings
          /\ edge_embeddings' = edge_embeddings
          /\ triple_to_edge' = triple_to_edge]_vars

(* the same triple added twice, the second call having recomputed the edge
   embedding (one provider call) and no node embedding *)
C12_Witness ==
    /\ adds = 2
    /\ last.op = "add" /\ ~last.raised /\ last.calls = 1
    /\ StoredTriples(knowledge_graph) = {last.triple}
    /\ DOMAIN edge_embeddings = {<<last.triple.head, last.triple.tail>>}

(* C16: after any adds, returned or raised, every pair that has a cached
   edge embedding is an edge of the graph, and the cached embedding is the
   provider's embedding of "head relation tail" with the relation the graph
   now stores for the pair. *)
C16_EdgeEmbeddingTracksRelation ==
    \A e \in DOMAIN edge_embeddings :
      /\ e \in DOMAIN knowledge_graph.edges
      /\ edge_embeddings[e] =
             _compute_embedding(<<e[1], knowledge_graph.edges[e], e[2]>>)

----------------------------------------------------------------------------
(* Properties of retrieval *)

(* the similarity of a query and the cached embedding of edge e *)
EdgeScore(query, e) ==
    find_cosine_similarity(_compute_embedding(NormalizeText(query)),
                           edge_embeddings[e])

TripleScore(query, t) == EdgeScore(query, <<t.head, t.tail>>)

(* ascending (head, relation, tail) *)
TripleBefore(a, b) ==
    \/ Rank(a.head) < Rank(b.head)
    \/ /\ a.head = b.head
       /\ \/ Rank(a.relation) < Rank(b.relation)
          \/ a.relation = b.relation /\ Rank(a.tail) < Rank(b.tail)

(* descending score, then ascending (head, relation, tail) *)
RankedBefore(query, a, b) ==
    \/ TripleScore(query, a) > TripleScore(query, b)
    \/ TripleScore(query, a) = TripleScore(query, b) /\ TripleBefore(a, b)

Retrieved == last.op = "retrieve" /\ ~last.raised

(* the triples of the edges that have a score at or above the threshold *)
Qualifying(query, threshold) ==
    {Triple(e[1], knowledge_graph.edges[e], e[2]) :
        e \in {d \in DOMAIN edge_embeddings : EdgeScore(query, d) >= threshold}}

(* C4: on a store that has an edge, and in which every edge has its cached
   embedding, retrieve returns as max_score_triple a stored triple whose
   score is the maximum over the stored edges, and that maximum as
   max_score, whatever the threshold and the scores. *)
C4_BestTripleIsMaximum ==
    (/\ Retrieved
     /\ DOMAIN knowledge_graph.edges # {}
     /\ DOMAIN knowledge_graph.edges = DOMAIN edge_embeddings)
    => /\ Len(last.value) = 3
       /\ last.value[3] \in StoredTriples(knowledge_graph)
       /\ TripleScore(last.query, last.value[3]) = last.value[2]
       /\ \A e \in DOMAIN edge_embeddings :
            EdgeScore(last.query, e) <= last.value[2]

(* C5: on a store with no edges retrieve returns the three parts, with an
   empty ranked list and no best triple, and the caller that unpacks them
   goes on with an empty retrieval result. *)
C5_EmptyStoreThreeParts ==
    /\ (Retrieved /\ DOMAIN knowledge_graph.edges = {})
         => /\ Len(last.value) = 3
            /\ last.value[1] = <<>>
            /\ last.value[3] = None
    /\ (last.op = "demonstrate" /\ DOMAIN knowledge_graph.edges = {})
         => /\ last.returned = "contexts"
            /\ last.expanded_triples = <<>>

(* C7: the ranked list is the first top_k of the qualifying triples in the
   order (descending score, ascending (head, relation, tail)): it has
   min(top_k, number qualifying) elements, all qualifying, in that order,
   and every qualifying triple left out comes after every one returned. *)
C7_RankedIsTopKOfSorted ==
    (Retrieved /\ Len(last.value) = 3)
    => LET ranked == last.value[1]
           Q == Qualifying(last.query, last.similarity_threshold)
       IN  /\ Len(ranked) = Min(last.top_k, Cardinality(Q))
           /\ Range(ranked) \subseteq Q
           /\ \A i, j \in 1..Len(ranked) :
                i < j => RankedBefore(last.query, ranked[i], ranked[j])
           /\ \A q \in Q \ Range(ranked) : \A i \in 1..Len(ranked) :
                RankedBefore(last.query, ranked[i], q)

(* two returned triples with the same score *)
C7_Witness ==
    /\ Retrieved /\ Len(last.value) = 3
    /\ Len(last.value[1]) >= 2
    /\ TripleScore(last.query, last.value[1][1])
         = TripleScore(last.query, last.value[1][2])

(* C8: every returned triple is a stored edge with its current relation and
   a score >= threshold; with top_k at least the number of stored edges a
   triple is returned if and only if its score is >= threshold. *)
C8_ThresholdBoundary ==
    (Retrieved /\ Len(last.value) = 3)
    => LET ranked == last.value[1]
       IN  /\ \A t \in Range(ranked) :
                /\ t \in StoredTriples(knowledge_graph)
                /\ <<t.head, t.tail>> \in DOMAIN edge_embeddings
                /\ TripleScore(last.query, t) >= last.similarity_threshold
           /\ last.top_k >= Cardinality(DOMAIN knowledge_graph.edges)
                => \A e \in DOMAIN edge_embeddings :
                     EdgeScore(last.query, e) >= last.similarity_threshold
                       => Triple(e[1], knowledge_graph.edges[e], e[2])
                            \in Range(ranked)

(* one triple scores exactly the threshold and is returned, another scores
   below it and is not *)
C8_Witness ==
    /\ Retrieved /\ Len(last.value) = 3
    /\ last.top_k >= Cardinality(DOMAIN knowledge_graph.edges)
    /\ \E t \in Range(last.value[1]) :
         TripleScore(last.query, t) = last.similarity_threshold
    /\ \E e \in DOMAIN edge_embeddings :
         /\ EdgeScore(last.query, e) < last.similarity_threshold
         /\ Triple(e[1], knowledge_graph.edges[e], e[2]) \notin Range(last.value[1])

(* C18: whenever retrieve returns a ranked list that is not empty, the
   reported max_score_triple is the first triple of the list and max_score
   is the score of that triple, ties for the maximum included. *)
C18_BestIsFirstRanked ==
    (Retrieved /\ Len(last.value) = 3 /\ Len(last.value[1]) >= 1)
    => /\ last.value[3] = last.value[1][1]
       /\ last.value[2] = TripleScore(last.query, last.value[1][1])

----------------------------------------------------------------------------
(* Properties of expansion *)

Expanded == last.op = "expand" /\ ~last.raised

AB1 == Triple("A", "r1", "B")
BC2 == Triple("B", "r2", "C")
CD1 == Triple("C", "r1", "D")

Successors(n) == {e[2] : e \in {d \in DOMAIN knowledge_graph.edges : d[1] = n}}
Predecessors(n) == {e[1] : e \in {d \in DOMAIN knowledge_graph.edges : d[2] = n}}

(* the k alphabetically first elements of a set of strings *)
FirstK(S, k) == {x \in S : Cardinality({y \in S : Rank(y) < Rank(x)}) < k}

(* the working set at the start of the last hop of the call in last *)
WorkingBefore ==
    IF last.hops = 1 THEN Range(last.triples)
    ELSE Range(expand_subgraph(knowledge_graph, last.triples, last.hops - 1,
                               last.max_nodes_per_hop).value)

(* C6: neighbors are taken in both directions: in one hop, for a stored edge
   X -> E with E an endpoint of a seed, X not an endpoint of a seed, X joined
   to no other seed endpoint and X among the first max_nodes_per_hop of the
   sorted entities joined to E by an edge in either direction, the triple
   (X, relationOf(X, E), E) is in the result. *)
C6_IncomingNeighborExpanded ==
    (Expanded /\ last.hops = 1)
    => LET seen == Endpoints(Range(last.triples))
           Adjacent(n) == Successors(n) \cup Predecessors(n)
       IN  \A e \in DOMAIN knowledge_graph.edges :
             (/\ e[2] \in seen
              /\ e[1] \notin seen
              /\ e[1] \in FirstK(Adjacent(e[2]), last.max_nodes_per_hop)
              /\ \A n \in seen \ {e[2]} : e[1] \notin Adjacent(n))
             => Triple(e[1], knowledge_graph.edges[e], e[2]) \in Range(last.value)

(* C9: every triple added in a hop is incident to an endpoint of the working
   set as it was when the hop began (for one hop: of a seed), and on the
   store {(A,r1,B), (B,r2,C), (C,r1,D)} one hop from the seed (A,r1,B) yields
   exactly (A,r1,B), (B,r2,C). *)
C9_NoSameHopCascade ==
    (Expanded /\ last.hops >= 1)
    => /\ \A t \in Range(last.value) \ WorkingBefore :
            t.head \in Endpoints(WorkingBefore) \/ t.tail \in Endpoints(WorkingBefore)
       /\ (/\ StoredTriples(knowledge_graph) = {AB1, BC2, CD1}
           /\ last.triples = <<AB1>> /\ last.hops = 1
           /\ last.max_nodes_per_hop >= 1)
          => last.value = <<AB1, BC2>>

(* the chain A -> B -> C -> D expanded one hop from (A,r1,B) *)
C9_Witness ==
    /\ Expanded /\ last.hops = 1 /\ last.triples = <<AB1>>
    /\ StoredTriples(knowledge_graph) = {AB1, BC2, CD1}
    /\ last.value = <<AB1, BC2>>

(* C10: every triple added in a hop joins a node of the working set to a
   neighbor that was unvisited and is among the first max_nodes_per_hop of
   the node's sorted neighbors, visited ones counted. *)
C10_NeighborCap ==
    (Expanded /\ last.hops >= 1)
    => LET seen == Endpoints(WorkingBefore)
           g == knowledge_graph
       IN  \A t \in Range(last.value) \ WorkingBefore :
             \E node \in seen :
               \E nb \in FirstK(Successors(node), last.max_nodes_per_hop) \ seen :
                 \/ t = Triple(node, g.edges[<<node, nb>>], nb)
                 \/ /\ <<nb, node>> \in DOMAIN g.edges
                    /\ t = Triple(nb, g.edges[<<nb, node>>], node)

(* A has the neighbors B, C, D and the cap is 2: B, though visited, takes
   one of the two places, C is explored and D is not *)
C10_Witness ==
    /\ Expanded /\ last.hops = 1 /\ last.triples = <<AB1>>
    /\ last.max_nodes_per_hop = 2
    /\ Successors("A") = {"B", "C", "D"}
    /\ Successors("B") = {}
    /\ Triple("A", "r2", "C") \in Range(last.value)
    /\ Triple("A", "r1", "D") \notin Range(last.value)

(* the sequence holds exactly the triples of the set T, each once, in
   ascending (head, relation, tail) order *)
IsSortedSetOf(seq, T) ==
    /\ Range(seq) = T
    /\ \A i, j \in 1..Len(seq) : i < j => TripleBefore(seq[i], seq[j])

(* C11: with hops = 0, or with max_nodes_per_hop = 0 and any hops, expand
   returns (without raising) exactly the seed triples, each once, sorted by
   (head, relation, tail), whatever the seed list: with duplicates, with
   triples that are not in the store. *)
C11_DegenerateExpansion ==
    (last.op = "expand" /\ (last.hops = 0 \/ last.max_nodes_per_hop = 0))
    => /\ ~last.raised
       /\ IsSortedSetOf(last.value, Range(last.triples))

(* the working state at the start of the last hop of the call in last *)
StateBefore ==
    expand_state(knowledge_graph, last.triples, last.hops - 1,
                 last.max_nodes_per_hop)

(* the other endpoint of a triple that has endpoint x *)
Other(t, x) == IF t.head = x THEN t.tail ELSE t.head

(* C17: in every hop, each triple added joins a node that was visited when
   the hop began to a neighbor that was not; no added triple has both
   endpoints among the endpoints of the seeds; and all the triples added for
   a newly discovered entity join it to one and the same node, the one it
   was discovered through. *)
C17_VisitOnce ==
    (Expanded /\ last.hops >= 1)
    => LET seen == StateBefore.seen_nodes
           added == Range(last.value) \ StateBefore.expanded_triples
           seeds == Endpoints(Range(last.triples))
       IN  /\ \A t \in added : (t.head \in seen) # (t.tail \in seen)
           /\ \A t \in Range(last.value) \ Range(last.triples) :
                ~(t.head \in seeds /\ t.tail \in seeds)
           /\ \A x \in Endpoints(added) \ seen :
                Cardinality({Other(t, x) :
                    t \in {u \in added : x \in {u.head, u.tail}}}) = 1

(* C is a neighbor of both A and B: it is discovered through A, and the
   edge from B to it is not added *)
C17_Witness ==
    /\ Expanded /\ last.hops = 1 /\ last.triples = <<AB1>>
    /\ last.max_nodes_per_hop >= 1
    /\ {AB1, Triple("A", "r2", "C"), BC2} \subseteq StoredTriples(knowledge_graph)
    /\ Triple("A", "r2", "C") \in Range(last.value)
    /\ BC2 \notin Range(last.value)

(* C19: raising max_nodes_per_hop never removes a triple from the result:
   for every cap m' >= max_nodes_per_hop, expand with the same graph, seeds
   and hops returns a superset of the triples returned. *)
C19_MonotoneInCap ==
    Expanded
    => \A m \in last.max_nodes_per_hop..MaxCap :
         LET r == expand_subgraph(knowledge_graph, last.triples, last.hops, m)
         IN  ~r.raised /\ Range(last.value) \subseteq Range(r.value)

(* C19 as amended: raising max_nodes_per_hop never removes an entity from
   the result: for every cap m' >= max_nodes_per_hop, the heads and tails of
   the triples returned are among the heads and tails of the triples that
   expand returns with cap m'. *)
C19_EntitiesMonotoneInCap ==
    Expanded
    => \A m \in last.max_nodes_per_hop..MaxCap :
         LET r == expand_subgraph(knowledge_graph, last.triples, last.hops, m)
         IN  ~r.raised
             /\ Endpoints(Range(last.value)) \subseteq Endpoints(Range(r.value))

(* with cap 1 the edge B -> D is returned; with cap 2 D is discovered
   through A first and B -> D is not returned, D still being in the result *)
C19_Witness ==
    /\ Expanded /\ last.hops = 1 /\ last.triples = <<AB1>>
    /\ last.max_nodes_per_hop = 1
    /\ Triple("B", "r1", "D") \in Range(last.value)
    /\ LET r == expand_subgraph(knowledge_graph, last.triples, 1, 2)
       IN  /\ Triple("B", "r1", "D") \notin Range(r.value)
           /\ Triple("A", "r1", "D") \in Range(r.value)

(* C20: for hops >= 1, expand on seeds of which a head or tail is not a node
   of the graph returns without raising, and the result contains the
   seeds. *)
C20_UnknownSeedAccepted ==
    (/\ last.op = "expand" /\ last.hops >= 1
     /\ ~(Endpoints(Range(last.triples)) \subseteq knowledge_graph.nodes))
    => /\ ~last.raised
       /\ Range(last.triples) \subseteq Range(last.value)

(* C21: every triple of the result of expand that is not a seed is an edge
   of the graph, from its head to its tail, with the relation the graph
   stores for that ordered pair. *)
C21_OnlyStoredFacts ==
    Expanded
    => \A t \in Range(last.value) \ Range(last.triples) :
         /\ <<t.head, t.tail>> \in DOMAIN knowledge_graph.edges
         /\ knowledge_graph.edges[<<t.head, t.tail>>] = t.relation

(* B and C are joined in both directions: from B the outgoing edge to C and
   the incoming edge from C are both added, each in its own direction *)
C21_Witness ==
    /\ Expanded /\ last.hops = 1 /\ last.triples = <<AB1>>
    /\ last.max_nodes_per_hop >= 1
    /\ Successors("A") = {"B"}
    /\ BC2 \in Range(last.value)
    /\ Triple("C", "r2", "B") \in Range(last.value)
    /\ Triple("C", "r2", "B") \in StoredTriples(knowledge_graph)

(* the result of the call in last made with another number of hops *)
WithHops(hops) ==
    expand_subgraph(knowledge_graph, last.triples, hops, last.max_nodes_per_hop)

(* C22: for every store, seed list, cap and number of hops h, expand returns
   a result that contains every seed; the result with h + 1 hops contains
   the result with h hops; and if hop h + 1 adds no triple, no later hop
   adds one. *)
C22_MonotoneInHops ==
    last.op = "expand"
    => /\ ~last.raised
       /\ Range(last.triples) \subseteq Range(last.value)
       /\ ~WithHops(last.hops + 1).raised
       /\ Range(last.value) \subseteq Range(WithHops(last.hops + 1).value)
       /\ WithHops(last.hops + 1).value = last.value
            => \A k \in (last.hops + 1)..(MaxHops + 2) :
                 WithHops(k).value = last.value

----------------------------------------------------------------------------
(* Properties of formatting *)

Formatted(format_type) == last.op = "format" /\ last.format_type = format_type

(* the lists that hold the elements of seq, each as often, in any order *)
Arrangements(seq) ==
    LET n == Len(seq)
        perms == {p \in [1..n -> 1..n] : \A i, j \in 1..n : p[i] = p[j] => i = j}
    IN  {[i \in 1..n |-> seq[p[i]]] : p \in perms}

(* ascending (head, relation, tail), equal triples side by side *)
Ascending(seq) == \A i, j \in 1..Len(seq) : i < j => ~TripleBefore(seq[j], seq[i])

(* "{head} {relation} {tail}." for each triple of seq from the i-th on, in
   the order of seq, a space between two of them *)
RECURSIVE NaturalText(_, _)
NaturalText(seq, i) ==
    IF i > Len(seq) THEN ""
    ELSE LET t == seq[i]
             sentence == t.head \o " " \o t.relation \o " " \o t.tail \o "."
         IN  IF i = Len(seq) THEN sentence
             ELSE sentence \o " " \o NaturalText(seq, i + 1)

(* "{relation} {tail}" for each triple of seq from the i-th on, "; " between
   two of them *)
RECURSIVE PairsText(_, _)
PairsText(seq, i) ==
    IF i > Len(seq) THEN ""
    ELSE LET pair == seq[i].relation \o " " \o seq[i].tail
         IN  IF i = Len(seq) THEN pair
             ELSE pair \o "; " \o PairsText(seq, i + 1)

(* for an ascending seq: the line of the first head, built from the run of
   triples that have it, then a newline and the lines of the other heads *)
RECURSIVE StructuredText(_)
StructuredText(seq) ==
    IF seq = <<>> THEN ""
    ELSE LET h == seq[1].head
             run == SelectSeq(seq, LAMBDA t : t.head = h)
             rest == SelectSeq(seq, LAMBDA t : t.head # h)
             line == h \o " -> " \o PairsText(run, 1)
         IN  IF rest = <<>> THEN line
             ELSE line \o "\n" \o StructuredText(rest)

(* C13: format(triples, "structured") returns one line per distinct head,
   lines in ascending head order joined by a newline, each line
   "{head} -> " followed by "{relation} {tail}" for the triples of that head
   in ascending (relation, tail) order joined by "; "; every arrangement of
   the input list gives the same text. *)
C13_StructuredFormat ==
    Formatted("structured")
    => /\ ~last.raised
       /\ \A a \in Arrangements(last.triples) :
            /\ Ascending(a) => last.value = StructuredText(a)
            /\ generate_context(a, "structured").value = last.value

(* the example of the spec, given in descending order *)
C13_Witness ==
    /\ Formatted("structured")
    /\ last.triples = <<Triple("A", "r2", "C"), Triple("A", "r1", "B")>>
    /\ last.value = "A -> r1 B; r2 C"

(* C14: format(triples, "natural") returns "{head} {relation} {tail}." for
   every triple of the input, in ascending (head, relation, tail) order,
   joined by a single space; every arrangement of the input list gives the
   same text, and the empty list gives the empty string. *)
C14_NaturalFormat ==
    Formatted("natural")
    => /\ ~last.raised
       /\ \A a \in Arrangements(last.triples) :
            /\ Ascending(a) => last.value = NaturalText(a, 1)
            /\ generate_context(a, "natural").value = last.value
       /\ last.triples = <<>> => last.value = ""

(* two triples given in descending order *)
C14_Witness ==
    /\ Formatted("natural")
    /\ last.triples = <<Triple("B", "r1", "D"), Triple("A", "r1", "B")>>
    /\ last.value = "A r1 B. B r1 D."

(* C15: format with a style other than "natural" and "structured" raises an
   error made from that style and returns no text, for every list of
   triples, the empty one included; with one of the two styles it does not
   raise. *)
C15_UnsupportedStyle ==
    last.op = "format"
    => IF last.format_type \in {"natural", "structured"}
         THEN ~last.raised
         ELSE /\ last.raised
              /\ last.error.type = "ValueError"
              /\ last.error.format_type = last.format_type
              /\ last.value = ""

(* an unsupported style with the empty list *)
C15_Witness ==
    /\ last.op = "format" /\ last.triples = <<>>
    /\ last.format_type = "json"
    /\ last.raised /\ last.error.format_type = "json"

====
